---- MODULE Spec2Model ----
(***************************************************************************)
(* Model of Backend/source/main/app.py: the module-level start-up of the   *)
(* Flask application (import, create_app(), route registration) and the    *)
(* serving of requests by a server runner that imported flask_app.         *)
(*                                                                         *)
(* Python objects live in a heap and are named by references (indices into *)
(* the heap, 0 is None), so that aliasing between the module global        *)
(* flask_app and the reference held by the server runner is kept.          *)
(***************************************************************************)
EXTENDS Naturals, Integers, Sequences, FiniteSets, TLC

\* ------------------------------------------------------------------ bounds
NumWorkers == 2        \* requests the server runner handles at the same time
MaxRequests == 3       \* requests accepted in one process lifetime
MaxFactoryCalls == 3   \* create_app() calls made by a caller of the factory alone
MaxRules == 2          \* rules such a caller registers on one instance

Workers == 1..NumWorkers
Methods == {"GET", "HEAD", "OPTIONS", "POST"}
Paths == {"/", "/missing"}
None == 0

VARIABLES
    pc,             \* position of the interpreter in app.py
    heap,           \* the application objects constructed so far
    factoryResults, \* outcome of every create_app() call, in call order
    flask_app,      \* module global flask_app: a reference, None while unbound
    runner,         \* the reference the server runner imported, None before
    req,            \* per worker: the request in flight and its response
    received,       \* number of requests accepted so far
    returned,       \* the values home_route returned, in return order
    effects         \* observable side effects performed (I/O, external calls)

vars == <<pc, heap, factoryResults, flask_app, runner, req, received, returned, effects>>

factoryCalls == Len(factoryResults)

Idle == [phase |-> "idle", method |-> "", path |-> "", status |-> 0, body |-> "", view |-> "none"]

\* ------------------------------------------------------- framework objects
\* Flask(): a fresh application object with nothing registered on it.
Flask == [url_map |-> <<>>, view_functions |-> {}]

\* Rule(rule, methods=..., endpoint=...): HEAD is added whenever GET is allowed,
\* and add_url_rule adds OPTIONS (automatic options).
Rule(rule, endpoint, methods) ==
    [rule |-> rule, endpoint |-> endpoint,
     methods |-> methods \cup (IF "GET" \in methods THEN {"HEAD"} ELSE {}) \cup {"OPTIONS"}]

add_url_rule(app, rule, endpoint, methods) ==
    [app EXCEPT !.url_map = Append(@, Rule(rule, endpoint, methods)),
                !.view_functions = @ \cup {endpoint}]

\* ------------------------------------------------------------- the factory
\* source.main.config.create_app(): no parameters, constructs and returns a
\* ready-to-serve application instance; acquires nothing, validates nothing.
create_app_failing ==
    IF Len(heap) >= 1
    THEN [outcome |-> "raised", app |-> Flask, effects |-> {}]
    ELSE [outcome |-> "returned", app |-> Flask, effects |-> {}]

create_app == [outcome |-> "returned", app |-> Flask, effects |-> {}]

\* ------------------------------------------------------------- the handler
\* def home_route(): return "Hello World !"
home_route_nospace == [outcome |-> "returned", value |-> "Hello World!", effects |-> {}]

home_route_counting ==
    [outcome |-> "returned",
     value |-> IF Len(returned) = 0 THEN "Hello World !" ELSE "Hello World !!",
     effects |-> {}]

home_route_racy ==
    [outcome |-> "returned",
     value |-> IF Cardinality({w \in Workers : req[w].phase = "in_handler"}) > 1
               THEN "" ELSE "Hello World !",
     effects |-> {}]

home_route_raising ==
    IF Len(returned) >= 1
    THEN [outcome |-> "raised", value |-> "", effects |-> {}]
    ELSE [outcome |-> "returned", value |-> "Hello World !", effects |-> {}]

home_route == [outcome |-> "returned", value |-> "Hello World !", effects |-> {}]

\* @flask_app.route("/") passes no methods argument: the rule answers GET.
RouteMethodsWithPost == {"GET", "POST"}

RouteMethods == {"GET"}

RoutePath == "/"

RouteEndpoint == "home_route"

\* ------------------------------------------------- start-up: loading app.py
App(ref) == IF ref = None THEN Flask ELSE heap[ref]

\* Lines 1-2: the two imports bind Flask and create_app.
ImportNames ==
    /\ pc = "L1"
    /\ pc' = "L4"
    /\ UNCHANGED <<heap, factoryResults, flask_app, runner, req, received, returned, effects>>

\* One call of the factory: the object it returns is allocated on the heap.
Construct(r) ==
    /\ heap' = IF r.outcome = "returned" THEN Append(heap, r.app) ELSE heap
    /\ factoryResults' = Append(factoryResults,
           [outcome |-> r.outcome,
            ref |-> IF r.outcome = "returned" THEN Len(heap) + 1 ELSE None])
    /\ effects' = effects \cup r.effects

\* Line 4: flask_app = create_app()
CallCreateApp_twice ==
    /\ pc = "L4"
    /\ heap' = heap \o <<create_app.app, create_app.app>>
    /\ factoryResults' = factoryResults \o
           <<[outcome |-> "returned", ref |-> Len(heap) + 1],
             [outcome |-> "returned", ref |-> Len(heap) + 2]>>
    /\ effects' = effects
    /\ flask_app' = Len(heap) + 2
    /\ pc' = "L7"
    /\ UNCHANGED <<runner, req, received, returned>>

CallCreateApp ==
    /\ pc = "L4"
    /\ Construct(create_app)
    /\ flask_app' = IF create_app.outcome = "returned" THEN Len(heap) + 1 ELSE None
    /\ pc' = IF create_app.outcome = "returned" THEN "L7" ELSE "failed"
    /\ UNCHANGED <<runner, req, received, returned>>

\* Lines 7-9: def home_route, decorated by @flask_app.route("/").
RegisterRoute_skipped ==
    /\ pc = "L7"
    /\ pc' = "loaded"
    /\ UNCHANGED <<heap, factoryResults, flask_app, runner, req, received, returned, effects>>

RegisterRoute_twice ==
    /\ pc = "L7"
    /\ heap' = [heap EXCEPT ![flask_app] =
           add_url_rule(add_url_rule(@, RoutePath, RouteEndpoint, RouteMethods),
                        RoutePath, RouteEndpoint, RouteMethods)]
    /\ pc' = "loaded"
    /\ UNCHANGED <<factoryResults, flask_app, runner, req, received, returned, effects>>

RegisterRoute ==
    /\ pc = "L7"
    /\ heap' = [heap EXCEPT ![flask_app] =
           add_url_rule(@, RoutePath, RouteEndpoint, RouteMethods)]
    /\ pc' = "loaded"
    /\ UNCHANGED <<factoryResults, flask_app, runner, req, received, returned, effects>>

\* The server runner imports flask_app: an import yields the name only once
\* the module body has run to its end.
RunnerImport ==
    /\ pc = "loaded"
    /\ runner = None
    /\ runner' = flask_app
    /\ UNCHANGED <<pc, heap, factoryResults, flask_app, req, received, returned, effects>>

\* ------------------------------------------------------------------ serving
\* URL matching of the application's rule list against a request.
Matching(app, path) == {i \in DOMAIN app.url_map : app.url_map[i].rule = path}

Allowed(app, method, path) == {i \in Matching(app, path) : method \in app.url_map[i].methods}

Min(S) == CHOOSE x \in S : \A y \in S : x <= y

match(app, method, path) ==
    IF Matching(app, path) = {} THEN [kind |-> "NotFound", endpoint |-> "none"]
    ELSE IF Allowed(app, method, path) = {} THEN [kind |-> "MethodNotAllowed", endpoint |-> "none"]
    ELSE [kind |-> "matched", endpoint |-> app.url_map[Min(Allowed(app, method, path))].endpoint]

\* The runner accepts a request on a free worker.
Receive(w, method, path) ==
    /\ runner # None
    /\ req[w].phase = "idle"
    /\ received < MaxRequests
    /\ received' = received + 1
    /\ req' = [req EXCEPT ![w] = [Idle EXCEPT !.phase = "received", !.method = method, !.path = path]]
    /\ UNCHANGED <<pc, heap, factoryResults, flask_app, runner, returned, effects>>

\* The application dispatches the request: 404 when no rule matches the path,
\* 405 when the rule does not allow the method, the automatic answer for
\* OPTIONS, and otherwise a call of the view function of the endpoint.
Dispatch(w) ==
    /\ req[w].phase = "received"
    /\ LET m == match(App(runner), req[w].method, req[w].path) IN
        req' = [req EXCEPT ![w] =
            IF m.kind = "NotFound" THEN [@ EXCEPT !.phase = "responded", !.status = 404, !.body = "Not Found"]
            ELSE IF m.kind = "MethodNotAllowed" THEN [@ EXCEPT !.phase = "responded", !.status = 405, !.body = "Method Not Allowed"]
            ELSE IF req[w].method = "OPTIONS" THEN [@ EXCEPT !.phase = "responded", !.status = 200, !.body = ""]
            ELSE IF m.endpoint \in App(runner).view_functions
                 THEN [@ EXCEPT !.phase = "in_handler", !.view = m.endpoint]
                 ELSE [@ EXCEPT !.phase = "responded", !.status = 500, !.body = "Internal Server Error"]]
    /\ UNCHANGED <<pc, heap, factoryResults, flask_app, runner, received, returned, effects>>

\* What the body of home_route leaves alone: it assigns nothing.
HandlerFrame_registering ==
    /\ heap' = [heap EXCEPT ![runner] = add_url_rule(@, "/missing", RouteEndpoint, RouteMethods)]
    /\ UNCHANGED <<pc, factoryResults, flask_app, runner, received>>

HandlerFrame == UNCHANGED <<pc, heap, factoryResults, flask_app, runner, received>>

\* home_route runs and returns; the returned string becomes a 200 response
\* (an exception a 500), and the body of a HEAD response is dropped.
HandlerReturn(w) ==
    /\ req[w].phase = "in_handler"
    /\ returned' = IF home_route.outcome = "returned" THEN Append(returned, home_route.value) ELSE returned
    /\ effects' = effects \cup home_route.effects
    /\ req' = [req EXCEPT ![w] =
            IF home_route.outcome = "returned"
            THEN [@ EXCEPT !.phase = "responded", !.status = 200,
                           !.body = IF req[w].method = "HEAD" THEN "" ELSE home_route.value]
            ELSE [@ EXCEPT !.phase = "responded", !.status = 500, !.body = "Internal Server Error"]]
    /\ HandlerFrame

\* The response is sent and the worker is free again.
Complete(w) ==
    /\ req[w].phase = "responded"
    /\ req' = [req EXCEPT ![w] = Idle]
    /\ UNCHANGED <<pc, heap, factoryResults, flask_app, runner, received, returned, effects>>

\* ------------------------------------------------------------ specification
Init ==
    /\ pc = "L1"
    /\ heap = <<>>
    /\ factoryResults = <<>>
    /\ flask_app = None
    /\ runner = None
    /\ req = [w \in Workers |-> Idle]
    /\ received = 0
    /\ returned = <<>>
    /\ effects = {}

Next ==
    \/ ImportNames
    \/ CallCreateApp
    \/ RegisterRoute
    \/ RunnerImport
    \/ \E w \in Workers, method \in Methods, path \in Paths : Receive(w, method, path)
    \/ \E w \in Workers : Dispatch(w)
    \/ \E w \in Workers : HandlerReturn(w)
    \/ \E w \in Workers : Complete(w)

Spec == Init /\ [][Next]_vars

\* The handler is a single return statement: once entered it is not blocked,
\* and any scheduler that runs a thread at all lets it return.
FairSpec == Spec /\ \A w \in Workers : WF_vars(HandlerReturn(w))

\* --------------------------------------------- the factory called on its own
\* A caller (a test, another entry point) calls create_app() repeatedly and
\* registers rules on the instances it holds.
CallerCreateApp ==
    /\ pc = "caller"
    /\ factoryCalls < MaxFactoryCalls
    /\ Construct(create_app)
    /\ UNCHANGED <<pc, flask_app, runner, req, received, returned>>

CallerRegister(i, path) ==
    /\ pc = "caller"
    /\ i \in DOMAIN heap
    /\ Len(heap[i].url_map) < MaxRules
    /\ heap' = [heap EXCEPT ![i] = add_url_rule(@, path, "probe", {"GET"})]
    /\ UNCHANGED <<pc, factoryResults, flask_app, runner, req, received, returned, effects>>

FactoryInit ==
    /\ pc = "caller"
    /\ heap = <<>>
    /\ factoryResults = <<>>
    /\ flask_app = None
    /\ runner = None
    /\ req = [w \in Workers |-> Idle]
    /\ received = 0
    /\ returned = <<>>
    /\ effects = {}

FactoryNext ==
    \/ CallerCreateApp
    \/ \E i \in 1..MaxFactoryCalls, path \in Paths : CallerRegister(i, path)

SpecFactory == FactoryInit /\ [][FactoryNext]_vars

\* ------------------------------------------------------------------- claims
Responded(w) == req[w].phase = "responded"

IsGetRoot(w) == req[w].method = "GET" /\ req[w].path = "/"

HasRootRoute(app) ==
    /\ \E i \in DOMAIN app.url_map :
          /\ app.url_map[i].rule = "/"
          /\ app.url_map[i].endpoint = "home_route"
          /\ "GET" \in app.url_map[i].methods
    /\ "home_route" \in app.view_functions

Serving == runner # None \/ \E w \in Workers : req[w].phase # "idle"

\* C1: every GET / is dispatched to home_route and answered with status 200
\* and the body "Hello World !", whatever was served before it.
C1_GetRootHelloWorld ==
    \A w \in Workers :
        (Responded(w) /\ IsGetRoot(w)) =>
            /\ req[w].view = "home_route"
            /\ req[w].status = 200
            /\ req[w].body = "Hello World !"

\* C1 witness: a GET / answered after two other requests were accepted.
W_C1_GetRootAnswered ==
    /\ received >= 3
    /\ \E w \in Workers :
          Responded(w) /\ IsGetRoot(w) /\ req[w].status = 200 /\ req[w].body = "Hello World !"

\* C2 as stated: every request other than GET / leaves home_route uninvoked
\* and is answered with a status other than 200.
CE_C2_EveryOtherRequestNot200 ==
    \A w \in Workers :
        (Responded(w) /\ ~IsGetRoot(w)) =>
            (req[w].view # "home_route" /\ req[w].status # 200)

\* C2 amended: a request whose path is not "/" or whose method is none of GET,
\* HEAD, OPTIONS leaves home_route uninvoked and is answered 404 (unknown
\* path) or 405 (method not allowed on "/"); HEAD / is dispatched to
\* home_route and answered 200 with an empty body; OPTIONS / is answered 200
\* without invoking home_route.
C2_UnroutedRequestsNot200 ==
    \A w \in Workers :
        Responded(w) =>
            /\ (req[w].path # "/") => (req[w].view # "home_route" /\ req[w].status = 404)
            /\ (req[w].path = "/" /\ req[w].method \notin {"GET", "HEAD", "OPTIONS"}) =>
                   (req[w].view # "home_route" /\ req[w].status = 405)
            /\ (req[w].path = "/" /\ req[w].method = "HEAD") =>
                   (req[w].view = "home_route" /\ req[w].status = 200 /\ req[w].body = "")
            /\ (req[w].path = "/" /\ req[w].method = "OPTIONS") =>
                   (req[w].view # "home_route" /\ req[w].status = 200)

\* C2 witness: POST / and GET /missing both answered, neither by home_route.
W_C2_PostRootAndMissing ==
    \E w1, w2 \in Workers :
        /\ Responded(w1) /\ req[w1].method = "POST" /\ req[w1].path = "/" /\ req[w1].status = 405
        /\ Responded(w2) /\ req[w2].method = "GET" /\ req[w2].path = "/missing" /\ req[w2].status = 404

\* C3: all invocations of home_route return the same value, and requests with
\* identical input get identical responses, however many came before.
C3_HandlerIdempotent ==
    /\ \A i, j \in DOMAIN returned : returned[i] = returned[j]
    /\ \A w1, w2 \in Workers :
          (Responded(w1) /\ Responded(w2)
             /\ req[w1].method = req[w2].method /\ req[w1].path = req[w2].path) =>
                (req[w1].status = req[w2].status /\ req[w1].body = req[w2].body)

\* C3 witness: home_route has returned at least three times.
W_C3_ThreeInvocations == Len(returned) >= 3

\* C4: under every interleaving of simultaneous GET / requests each one gets
\* 200 and "Hello World !", and a handler invocation leaves the application
\* object, the module global and the runner's reference as they were.
C4_ConcurrentIndependent ==
    /\ [](\A w \in Workers :
            (Responded(w) /\ IsGetRoot(w)) =>
                (req[w].status = 200 /\ req[w].body = "Hello World !"))
    /\ [][(\E w \in Workers : req[w].phase = "in_handler" /\ req'[w].phase = "responded") =>
            (heap' = heap /\ flask_app' = flask_app /\ runner' = runner /\ effects' = effects)]_vars

\* C4 witness: two GET / requests are inside home_route at the same time,
\* after an earlier invocation has already returned.
W_C4_TwoInHandler ==
    /\ Len(returned) >= 1
    /\ \E w1, w2 \in Workers :
          /\ w1 # w2
          /\ req[w1].phase = "in_handler" /\ IsGetRoot(w1)
          /\ req[w2].phase = "in_handler" /\ IsGetRoot(w2)

\* C5: create_app is called at most once, and exactly once, with the call
\* completed, in every state in which the runner serves.
C5_FactoryCalledOnce ==
    /\ factoryCalls <= 1
    /\ Serving =>
          /\ factoryCalls = 1
          /\ factoryResults[1].outcome = "returned"
          /\ pc = "loaded"

\* C5 witness: a request is being dispatched.
W_C5_Dispatching == \E w \in Workers : req[w].phase = "received"

\* C6 as stated: once create_app has returned, the instance is never mutated.
CE_C6_NeverMutatedAfterFactory ==
    [][factoryCalls >= 1 => heap' = heap]_vars

\* C6 amended: the instance is mutated only during start-up, by the factory
\* call (line 4) and by the route registration that follows it (line 7); once
\* the module is loaded, serving requests never mutates it.
C6_MutatedOnlyDuringStartup ==
    /\ [][heap' # heap => (pc \in {"L4", "L7"} /\ pc' # pc)]_vars
    /\ [][pc = "loaded" => (heap' = heap /\ flask_app' = flask_app)]_vars

\* C6 witness: requests were served by home_route on the loaded instance.
W_C6_ServedAfterLoad ==
    /\ pc = "loaded"
    /\ Len(returned) >= 2
    /\ Len(App(runner).url_map) = 1

\* C7: every create_app call returns a non-null application object, none
\* ends in an error, and a call changes nothing but the heap cell it returns.
C7_FactoryAlwaysReturns ==
    /\ [](\A i \in DOMAIN factoryResults :
            /\ factoryResults[i].outcome = "returned"
            /\ factoryResults[i].ref # None
            /\ factoryResults[i].ref \in DOMAIN heap)
    /\ [](effects = {})
    /\ [][factoryCalls' > factoryCalls =>
            (\A i \in DOMAIN heap : heap'[i] = heap[i])]_vars

\* C7 witness: the factory was called repeatedly while an earlier instance
\* already had rules registered on it.
W_C7_RepeatedCalls ==
    /\ factoryCalls >= 3
    /\ Len(heap[1].url_map) >= 1
    /\ Len(heap[3].url_map) = 0

\* C8: every invocation of home_route returns (none raises, so no 500), it
\* performs no side effect, and every invocation terminates.
C8_HandlerNeverFails ==
    /\ [](\A w \in Workers :
            (Responded(w) /\ req[w].view = "home_route") => req[w].status = 200)
    /\ [](effects = {})
    /\ \A w \in Workers : (req[w].phase = "in_handler") ~> Responded(w)

\* C8 witness: a later invocation of home_route has returned its response.
W_C8_HandlerReturned ==
    /\ Len(returned) >= 2
    /\ \E w \in Workers : Responded(w) /\ req[w].view = "home_route"

\* C9: the route "/" -> home_route is registered after create_app returned and
\* before the module is loaded, so whenever the runner holds the application
\* object, or a request is in flight, the route is registered.
C9_RouteRegisteredBeforeServing ==
    /\ pc = "L7" => (flask_app # None /\ ~HasRootRoute(App(flask_app)))
    /\ pc = "loaded" => HasRootRoute(App(flask_app))
    /\ Serving => HasRootRoute(App(runner))

\* C9 witness: the runner has just obtained the application object.
W_C9_RunnerHoldsApp == runner # None /\ received = 0

\* C10: after start-up the instance has exactly one rule, "/" -> home_route,
\* registered once, and serving requests leaves the rule list as it is.
C10_ExactlyOneRoute ==
    pc = "loaded" =>
        /\ Len(App(flask_app).url_map) = 1
        /\ Cardinality(Matching(App(flask_app), "/")) = 1
        /\ \A i \in Matching(App(flask_app), "/") : App(flask_app).url_map[i].endpoint = "home_route"
        /\ App(flask_app).view_functions = {"home_route"}

\* C10 witness: all accepted requests were served and the workers are idle.
W_C10_AfterServing ==
    /\ pc = "loaded"
    /\ received >= 3
    /\ \A w \in Workers : req[w].phase = "idle"

====
